---------------------------- MODULE Spec2Model ----------------------------
(***************************************************************************)
(* A model of correct/phase_proc.py: differential-phase (PhiDP) processing *)
(* of a polarimetric radar volume.                                         *)
(*                                                                         *)
(* A real number (an angle in degrees, a reflectivity in dBZ) is held as    *)
(* an integer count of 1/Scale units; a division rounds to the nearest     *)
(* unit.  A masked array is a record [data, mask] of   *)
(* two sequences of equal length, mask[i] = TRUE meaning "masked".  A      *)
(* Python index i (0-based) is element i + 1 of the TLA+ sequence.         *)
(***************************************************************************)
EXTENDS Integers, Sequences, FiniteSets, TLC

VARIABLES
    p_pc,        \* phase_proc: "call" | "sweep" | "kdp" | "done"
    p_args,      \* its arguments other than radar
    p_radar0,    \* the radar as the caller passed it
    p_z_mod,     \* z_mod
    p_proc_ph,   \* proc_ph, whose data is the array phidp_mod
    p_sweep,     \* its loop variable sweep
    p_start_ray, \* start_ray and end_ray as the last pass of the loop left them
    p_end_ray,
    p_lp_log,    \* the calls of LP_solver so far: sweep, rays and gates
    p_sob_kdp,   \* sob_kdp
    g_pc,        \* get_phidp_unf: "call" | "filter" | "unwrap" | "fill" | "done"
    g_args,      \* its arguments other than radar
    g_system_zero, \* its local system_zero
    g_radial,    \* its loop variable radial
    g_f,         \* the ray's notmeteo, x_ma and c after the run filter
    g_based,     \* the ray's based after the anchors are set
    g_cordata,   \* cordata, the result
    radar,       \* the radar volume: [fields, sweep_start, sweep_end]
    d_pc,        \* _det_sys_phase: "call" | "loop" | "done"
    d_radial,    \* its loop variable radial
    d_loc,       \* its locals [good, phases]
    d_result,    \* what it returned: [kind |-> "None"] or [kind |-> "value", v]
    s_pc,        \* smooth_and_trim driver: "call" | "done"
    s_x,         \* the argument x: [ndim, data]
    s_window_len,\* the argument window_len
    s_window,    \* the argument window (the kernel's name)
    s_out,       \* what the call did: [kind, y]
    u_pc,        \* unwrap_masked driver: "call" | "once" | "twice"
    u_lon,       \* the argument lon of unwrap_masked: [data, mask]
    u_centered,  \* the argument centered of the first call
    u_out,       \* what the first call returned
    u_out2,      \* what unwrap_masked(u_out, centered=True) returned
    a_pc,        \* construct_A_matrix driver: "call" | "done"
    a_n_gates,   \* the argument n_gates
    a_filt,      \* the argument filt
    a_out        \* what the call did: [kind, y], y the matrix

unwrapVars == <<u_pc, u_lon, u_centered, u_out, u_out2>>
smoothVars == <<s_pc, s_x, s_window_len, s_window, s_out>>
sysVars == <<d_pc, d_radial, d_loc, d_result>>
unfVars == <<g_pc, g_args, g_system_zero, g_radial, g_f, g_based, g_cordata>>
procVars == <<p_pc, p_args, p_radar0, p_z_mod, p_proc_ph, p_sweep, p_start_ray,
              p_end_ray, p_lp_log, p_sob_kdp>>
matVars == <<a_pc, a_n_gates, a_filt, a_out>>
vars == <<radar, unwrapVars, smoothVars, sysVars, unfVars, procVars, matVars>>

----------------------------------------------------------------------------
(* Bounds of the model *)

\* resolution of the arithmetic: a real v is held as the integer v * Scale
Scale == 100

\* longest sequence handed to unwrap_masked
MaxLen == 3

\* longest sequence handed to smooth_and_trim
MaxX == 7

\* largest window_len handed to smooth_and_trim
MaxWin == 9

\* most rays of a volume handed to _det_sys_phase
MaxSysRays == 3

\* gates per ray of a volume handed to _det_sys_phase
SysGates == 58

\* gates per ray of the short volumes handed to get_phidp_unf
UnfGates == 12

\* most gates handed to construct_A_matrix
MaxGatesA == 9

\* gates per ray of a volume handed to phase_proc, and their spacing in metres
ProcGates == 36

GateSpacing == 100

----------------------------------------------------------------------------
(* Arithmetic helpers *)

Abs(a) == IF a < 0 THEN -a ELSE a

Min2(a, b) == IF a <= b THEN a ELSE b

Max2(a, b) == IF a >= b THEN a ELSE b

\* floor(p / q) for q > 0
FloorDiv(p, q) == IF p >= 0 THEN p \div q ELSE -((-p + q - 1) \div q)

\* np.round(p / q) for q > 0: to the nearest integer, a tie to the even one
np_round(p, q) ==
    LET f == FloorDiv(p, q)
        r == p - f * q
    IN  IF 2 * r < q THEN f
        ELSE IF 2 * r > q THEN f + 1
        ELSE IF f % 2 = 0 THEN f ELSE f + 1

RECURSIVE SeqSum(_)
SeqSum(x) == IF x = <<>> THEN 0 ELSE x[1] + SeqSum(Tail(x))

Const(n, v) == [i \in 1..n |-> v]

\* the sequence f with its elements evaluated once
np_array(f) == f \o <<>>

\* the same of a sequence of sequences
np_array2(f) == np_array([r \in 1..Len(f) |-> np_array(f[r])])

SeqsUpTo(S, n) == UNION {[1..k -> S] : k \in 0..n}

\* the real number d at the model's resolution
Deg(d) == d * Scale

\* p / q for q > 0, rounded to the nearest unit
Quot(p, q) == FloorDiv(2 * p + q, 2 * q)

----------------------------------------------------------------------------
(* unwrap_masked *)

\* one full turn, in degrees
Turn == Deg(360)

\* half a turn: a larger step between neighbours is a fold
HalfTurn == Deg(180)

\* the positions (1-based) of the unmasked elements, ascending
RECURSIVE ValidIdxFrom(_, _)
ValidIdxFrom(mask, i) ==
    IF i > Len(mask) THEN <<>>
    ELSE IF mask[i] THEN ValidIdxFrom(mask, i + 1)
    ELSE <<i>> \o ValidIdxFrom(mask, i + 1)

ValidIdx(mask) == ValidIdxFrom(mask, 1)

\* lon.compressed(): the unmasked values, in order
compressed(lon) ==
    LET idx == ValidIdx(lon.mask) IN [k \in 1..Len(idx) |-> lon.data[idx[k]]]

\* np.diff(x)
np_diff(x) == [i \in 1..(Len(x) - 1) |-> x[i + 1] - x[i]]

\* mutant of unwrap_w: the signs of the two np.putmask calls exchanged
unwrap_w_flipped(ld) ==
    [i \in 1..Len(ld) |->
        IF ld[i] < -HalfTurn THEN -1
        ELSE IF ld[i] > HalfTurn THEN 1
        ELSE 0]

\* mutant of unwrap_w: the second np.putmask call (ld < -180) left out
unwrap_w_onesided(ld) ==
    [i \in 1..Len(ld) |-> IF ld[i] > HalfTurn THEN -1 ELSE 0]

\* w after the two np.putmask calls: -1 on a step above 180, +1 below -180
unwrap_w(ld) ==
    [i \in 1..Len(ld) |->
        IF ld[i] < -HalfTurn THEN 1
        ELSE IF ld[i] > HalfTurn THEN -1
        ELSE 0]

\* w.cumsum()
RECURSIVE cumsum(_)
cumsum(w) ==
    IF w = <<>> THEN <<>>
    ELSE LET p == cumsum(SubSeq(w, 1, Len(w) - 1))
         IN  Append(p, (IF p = <<>> THEN 0 ELSE p[Len(p)]) + w[Len(w)])

\* x[1:] += w.cumsum() * 360.0
unwrap_shift(x) ==
    LET c == cumsum(unwrap_w(np_diff(x)))
    IN  [i \in 1..Len(x) |-> IF i = 1 THEN x[1] ELSE x[i] + c[i - 1] * Turn]

\* mutant of unwrap_center: the factor 360 left out
unwrap_center_unscaled(x) ==
    LET k == np_round(SeqSum(x), Len(x) * Turn)
    IN  [i \in 1..Len(x) |-> x[i] - k]

\* x -= 360 * np.round(x.mean() / 360.0)
unwrap_center(x) ==
    LET k == np_round(SeqSum(x), Len(x) * Turn)
    IN  [i \in 1..Len(x) |-> x[i] - Turn * k]

\* lon[~lon.mask] = x
scatter(lon, x) ==
    LET idx == ValidIdx(lon.mask)
        pos(i) == CHOOSE k \in 1..Len(idx) : idx[k] = i
    IN  [data |-> [i \in 1..Len(lon.data) |->
                      IF lon.mask[i] THEN lon.data[i] ELSE x[pos(i)]],
         mask |-> lon.mask]

unwrap_masked(lon, centered) ==
    IF Len(lon.data) < 2 THEN lon
    ELSE LET x == compressed(lon) IN
         IF Len(x) < 2 THEN lon
         ELSE LET x1 == unwrap_shift(x)
                  x2 == IF centered THEN unwrap_center(x1) ELSE x1
              IN  scatter(lon, x2)

----------------------------------------------------------------------------
(* Python slices and numpy helpers on 1-D sequences *)

\* x[i] for a Python index i >= 0
At(x, i) == x[i + 1]

\* a Python slice bound b of a forward slice, brought into 0..n
FwdBound(b, n) ==
    LET c == IF b < 0 THEN b + n ELSE b
    IN  IF c < 0 THEN 0 ELSE IF c > n THEN n ELSE c

\* x[start:stop]
PySlice(x, start, stop) ==
    LET n == Len(x)
        a == FwdBound(start, n)
        b == FwdBound(stop, n)
    IN  SubSeq(x, a + 1, b)

\* x[start:]
PySliceFrom(x, start) == PySlice(x, start, Len(x))

\* a Python slice bound b of a backward slice, brought into -1..n-1
BwdBound(b, n) ==
    LET c == IF b < 0 THEN b + n ELSE b
    IN  IF c < 0 THEN -1 ELSE IF c > n - 1 THEN n - 1 ELSE c

\* x[start:stop:-1]
PyRevSlice(x, start, stop) ==
    LET n == Len(x)
        a == BwdBound(start, n)
        b == BwdBound(stop, n)
    IN  np_array([k \in 1..Max2(0, a - b) |-> At(x, a - (k - 1))])

\* sum over j of v[j] * a[k + Len(v) - 1 - j] (Python indices): one sample
\* of the full overlap of the shorter sequence v on the longer one a
ConvAt(v, a, k) ==
    LET RECURSIVE Acc(_)
        Acc(j) == IF j = Len(v) THEN 0
                  ELSE At(v, j) * At(a, k + Len(v) - 1 - j) + Acc(j + 1)
    IN  Acc(0)

\* np.convolve(w / wsum, s, mode='valid'): numpy puts the longer argument
\* first; the result has max(M, N) - min(M, N) + 1 samples
np_convolve_valid(w, wsum, s) ==
    LET a == IF Len(s) >= Len(w) THEN s ELSE w
        v == IF Len(s) >= Len(w) THEN w ELSE s
    IN  np_array([k \in 1..(Len(a) - Len(v) + 1) |->
                     Quot(ConvAt(v, a, k - 1), wsum)])

----------------------------------------------------------------------------
(* smooth_and_trim *)

\* 1000 * cos(2 pi k / m), row m (1..10), column k + 1 (k in 0..m)
CosTab == <<
    <<1000, 1000>>,
    <<1000, -1000, 1000>>,
    <<1000, -500, -500, 1000>>,
    <<1000, 0, -1000, 0, 1000>>,
    <<1000, 309, -809, -809, 309, 1000>>,
    <<1000, 500, -500, -1000, -500, 500, 1000>>,
    <<1000, 623, -223, -901, -901, -223, 623, 1000>>,
    <<1000, 707, 0, -707, -1000, -707, 0, 707, 1000>>,
    <<1000, 766, 174, -500, -940, -940, -500, 174, 766, 1000>>,
    <<1000, 809, 309, -309, -809, -1000, -809, -309, 309, 809, 1000>>
>>

Cos1000(k, m) == CosTab[m][(k % m) + 1]

\* 1000 * np.hanning(M), np.hamming(M), np.bartlett(M), np.blackman(M), M >= 2
np_hanning(M) == [i \in 1..M |-> (1000 - Cos1000(i - 1, M - 1)) \div 2]

np_hamming(M) == [i \in 1..M |-> (54000 - 46 * Cos1000(i - 1, M - 1)) \div 100]

np_bartlett(M) ==
    [i \in 1..M |-> Quot(2000 * Min2(i - 1, M - i), M - 1)]

np_blackman(M) ==
    [i \in 1..M |->
        (42000 - 50 * Cos1000(i - 1, M - 1) + 8 * Cos1000(2 * (i - 1), M - 1))
            \div 100]

\* the names smooth_and_trim accepts
valid_windows ==
    {"flat", "hanning", "hamming", "bartlett", "blackman", "sg_smooth"}

\* w of smooth_and_trim, times 1000
smooth_kernel(window, window_len) ==
    CASE window = "flat" -> Const(window_len, 1000)
      [] window = "sg_smooth" -> <<100, 250, 300, 250, 100>>
      [] window = "hanning" -> np_hanning(window_len)
      [] window = "hamming" -> np_hamming(window_len)
      [] window = "bartlett" -> np_bartlett(window_len)
      [] window = "blackman" -> np_blackman(window_len)

\* s = np.r_[x[window_len - 1:0:-1], x, x[-1:-window_len:-1]]
reflect_pad(x, window_len) ==
    PyRevSlice(x, window_len - 1, 0) \o x \o PyRevSlice(x, -1, -window_len)

Raised(e) == [kind |-> e, y |-> <<>>]

Returned(y) == [kind |-> "ok", y |-> y]

\* mutant of window_check: the test of the kernel's name left out
window_check_none(window) == TRUE

\* "if not window in valid_windows: raise ValueError" passes
window_check(window) == window \in valid_windows

\* y[window_len / 2:len(x) + window_len / 2]
smooth_trim(y, n, window_len) ==
    PySlice(y, window_len \div 2, n + window_len \div 2)

\* smooth_and_trim(x, window_len, window), x = [ndim, data]; a 1-D x holds
\* its samples in data, a 2-D x its rows
smooth_and_trim(x, window_len, window) ==
    IF x.ndim # 1 THEN Raised("ValueError")
    ELSE IF Len(x.data) < window_len THEN Raised("ValueError")
    ELSE IF window_len < 3 THEN Returned(x.data)
    ELSE IF ~window_check(window) THEN Raised("ValueError")
    ELSE IF window \notin valid_windows THEN Raised("AttributeError")
    ELSE LET s == reflect_pad(x.data, window_len)
             w == np_array(smooth_kernel(window, window_len))
             y == np_convolve_valid(w, SeqSum(w), s)
         IN  Returned(smooth_trim(y, Len(x.data), window_len))

\* smooth_and_trim on a 1-D sequence that is long enough, as the other
\* functions of the module call it
smooth1(x, window_len, window) ==
    smooth_and_trim([ndim |-> 1, data |-> x], window_len, window).y

----------------------------------------------------------------------------
(* det_sys_phase and _det_sys_phase *)

\* radar.fields[...]['data'][:, 30:]: the first gate looked at
SysFirstGate == 30

\* "if len(mpts[0]) > 25": a ray needs more than this many good gates
SysMinGates == 25

\* smooth_and_trim(phidp[radial, mpts[0]], 9)
SysWindow == 9

\* msmth_phidp[0:25]
SysHead == 25

\* the default ncp_lev = 0.4 and rhv_lev = 0.6, in tenths
DefaultNcpLev == 4

DefaultRhvLev == 6

\* v > lev and v < lev, for a level lev given in tenths
Above(v, lev) == 10 * v > lev * Scale

Below(v, lev) == 10 * v < lev * Scale

\* np.where(b)[0], as positions 1..Len(b)
RECURSIVE TrueIdxFrom(_, _)
TrueIdxFrom(b, i) ==
    IF i > Len(b) THEN <<>>
    ELSE IF b[i] THEN <<i>> \o TrueIdxFrom(b, i + 1)
    ELSE TrueIdxFrom(b, i + 1)

np_where(b) == TrueIdxFrom(b, 1)

\* x[idx] for a sequence idx of positions
Take(x, idx) == [k \in 1..Len(idx) |-> x[idx[k]]]

\* x.min() and x.max() of a non-empty sequence
SeqMin(x) == CHOOSE m \in {x[i] : i \in 1..Len(x)} : \A i \in 1..Len(x) : m <= x[i]

SeqMax(x) == CHOOSE m \in {x[i] : i \in 1..Len(x)} : \A i \in 1..Len(x) : m >= x[i]

\* sorted(x)
RECURSIVE Sorted(_)
Sorted(x) ==
    IF x = <<>> THEN <<>>
    ELSE LET m == SeqMin(x)
             k == CHOOSE i \in 1..Len(x) : x[i] = m
         IN  <<m>> \o Sorted(SubSeq(x, 1, k - 1) \o SubSeq(x, k + 1, Len(x)))

\* np.median(x) of a non-empty list
np_median(x) ==
    LET y == Sorted(x)
        n == Len(y)
    IN  IF n % 2 = 1 THEN y[(n + 1) \div 2]
        ELSE Quot(y[n \div 2] + y[n \div 2 + 1], 2)

\* field[:, 30:] of det_sys_phase
sys_slice(data) == [r \in 1..Len(data) |-> PySliceFrom(data[r], SysFirstGate)]

\* meteo = np.logical_and(ncp[radial, :] > ncp_lev, rhv[radial, :] > rhv_lev)
sys_meteo(ncp_row, rhv_row, ncp_lev, rhv_lev) ==
    [i \in 1..Len(ncp_row) |->
        Above(ncp_row[i], ncp_lev) /\ Above(rhv_row[i], rhv_lev)]

\* mutant of sys_enough: >= 25 in place of > 25
sys_enough_ge(n) == n >= SysMinGates

\* "if len(mpts[0]) > 25"
sys_enough(n) == n > SysMinGates

\* msmth_phidp[0:25].min()
sys_sample(phidp_row, mpts) ==
    SeqMin(PySlice(smooth1(Take(phidp_row, mpts), SysWindow, "hanning"),
                   0, SysHead))

\* one pass of the loop body of _det_sys_phase, on the locals [good, phases]
sys_ray(loc, ncp_row, rhv_row, phidp_row, ncp_lev, rhv_lev) ==
    LET mpts == np_where(sys_meteo(ncp_row, rhv_row, ncp_lev, rhv_lev))
    IN  IF sys_enough(Len(mpts))
        THEN [good |-> TRUE,
              phases |-> Append(loc.phases, sys_sample(phidp_row, mpts))]
        ELSE loc

\* mutant of sys_in_range: xrange(last_ray_idx)
sys_in_range_excl(radial, last_ray_idx) == radial < last_ray_idx

\* "for radial in xrange(last_ray_idx + 1)" has a pass for radial
sys_in_range(radial, last_ray_idx) == radial < last_ray_idx + 1

NoEstimate == [kind |-> "None", v |-> 0]

Estimate(v) == [kind |-> "value", v |-> v]

\* the two return statements of _det_sys_phase
sys_return(loc) ==
    IF ~loc.good THEN NoEstimate ELSE Estimate(np_median(loc.phases))

SysLoc0 == [good |-> FALSE, phases |-> <<>>]

\* the loop of _det_sys_phase from pass radial on
RECURSIVE sys_loop(_, _, _, _, _, _, _, _)
sys_loop(loc, radial, ncp, rhv, phidp, last_ray_idx, ncp_lev, rhv_lev) ==
    IF sys_in_range(radial, last_ray_idx)
    THEN sys_loop(sys_ray(loc, ncp[radial + 1], rhv[radial + 1],
                          phidp[radial + 1], ncp_lev, rhv_lev),
                  radial + 1, ncp, rhv, phidp, last_ray_idx, ncp_lev, rhv_lev)
    ELSE loc

\* _det_sys_phase(ncp, rhv, phidp, last_ray_idx, ncp_lev, rhv_lev)
_det_sys_phase(ncp, rhv, phidp, last_ray_idx, ncp_lev, rhv_lev) ==
    sys_return(sys_loop(SysLoc0, 0, ncp, rhv, phidp, last_ray_idx,
                        ncp_lev, rhv_lev))

\* det_sys_phase(radar, ncp_lev, rhohv_lev, ncp_field, rhv_field, phidp_field)
det_sys_phase(rad, ncp_lev, rhohv_lev, ncp_field, rhv_field, phidp_field) ==
    _det_sys_phase(sys_slice(rad.fields[ncp_field].data),
                   sys_slice(rad.fields[rhv_field].data),
                   sys_slice(rad.fields[phidp_field].data),
                   rad.sweep_end[1], ncp_lev, rhohv_lev)

----------------------------------------------------------------------------
(* snr and get_phidp_unf *)

\* the default window of smooth_and_trim and of snr
DefaultWindowLen == 11

\* "my_snr < 10.0"
SnrMin == 10

\* "[-10:-1]": system_max is taken over these of the last quality gates
SysMaxFrom == -10

SysMaxTo == -1

\* "> 11": with more valid gates than this the profile is smoothed before
\* the masked gates are filled in
FillSmoothOver == 11

\* an optional value: None is the empty sequence, a value v is <<v>>
None == <<>>

Some(v) == <<v>>

\* snr(line, wl): per gate the pair abs(signal), noise whose quotient is
\* returned
snr(line, wl) ==
    LET signal == smooth1(line, wl, "hanning")
        dev == np_array([i \in 1..Len(line) |-> Abs(line[i] - signal[i])])
        noise == smooth1(dev, wl, "hanning")
    IN  [i \in 1..Len(line) |-> [num |-> Abs(signal[i]), den |-> noise[i]]]

\* num / den < k in floating point: x / 0 is inf or nan, neither below k
RatioBelow(q, k) == q.den > 0 /\ q.num < k * q.den

\* notmeteo of get_phidp_unf
unf_notmeteo(ncp_row, rhv_row, my_snr, ncp_lev, rhohv_lev) ==
    [i \in 1..Len(ncp_row) |->
        \/ Below(ncp_row[i], ncp_lev)
        \/ Below(rhv_row[i], rhohv_lev)
        \/ RatioBelow(my_snr[i], SnrMin)]

\* ma.masked_where(condition, a)
masked_where(condition, a) == [data |-> a, mask |-> condition]

\* ma.notmasked_contiguous(x) of a 1-D x: the maximal runs of unmasked
\* elements as slices [start, stop), in order; None when there is none
RECURSIVE RunsFrom(_, _)
RunsFrom(mask, i) ==
    IF i > Len(mask) THEN <<>>
    ELSE IF mask[i] THEN RunsFrom(mask, i + 1)
    ELSE LET RECURSIVE EndOf(_)
             EndOf(j) == IF j < Len(mask) /\ ~mask[j + 1] THEN EndOf(j + 1) ELSE j
             e == EndOf(i)
         IN  <<[start |-> i - 1, stop |-> e]>> \o RunsFrom(mask, e + 1)

notmasked_contiguous(x) ==
    LET runs == RunsFrom(x.mask, 1) IN IF runs = <<>> THEN None ELSE runs

\* mask[a:b] = True
SetSlice(mask, a, b) ==
    LET lo == FwdBound(a, Len(mask))
        hi == FwdBound(b, Len(mask))
    IN  [i \in 1..Len(mask) |-> IF lo <= i - 1 /\ i - 1 < hi THEN TRUE ELSE mask[i]]

\* x_ma.mask[slc.start - 1:slc.stop + 1] = True
unf_remask(mask, slc) == SetSlice(mask, slc.start - 1, slc.stop + 1)

\* "if slc.stop - slc.start < ncpts or slc.start < ncpts"
unf_too_small(slc, ncpts) == slc.stop - slc.start < ncpts \/ slc.start < ncpts

\* the loop over the runs (lines 367-371)
RECURSIVE unf_filter_runs(_, _, _)
unf_filter_runs(mask, runs, ncpts) ==
    IF runs = <<>> THEN mask
    ELSE unf_filter_runs(IF unf_too_small(Head(runs), ncpts)
                         THEN unf_remask(mask, Head(runs)) ELSE mask,
                         Tail(runs), ncpts)

\* lines 365-382: the run filter; iterating over None raises the TypeError
\* that is caught: c = 1 and the whole ray is masked
unf_filter(x_ma, ncpts) ==
    LET runs == notmasked_contiguous(x_ma)
    IN  IF runs = None
        THEN [x_ma |-> [x_ma EXCEPT !.mask = Const(Len(x_ma.mask), TRUE)],
              c |-> 1]
        ELSE [x_ma |-> [x_ma EXCEPT !.mask = unf_filter_runs(x_ma.mask, runs, ncpts)],
              c |-> 0]

\* lines 383-390: 'nowrap' is not None holds of the string whatever the
\* argument is, so the first branch is always taken; x_ma[None::] is x_ma
unf_unwrap(x_ma, nowrap) ==
    LET k == IF nowrap = None THEN 0 ELSE FwdBound(nowrap[1], Len(x_ma.data))
        tail == [data |-> PySliceFrom(x_ma.data, k), mask |-> PySliceFrom(x_ma.mask, k)]
        end_unwrap == unwrap_masked(tail, FALSE)
    IN  [data |-> PySlice(x_ma.data, 0, k) \o end_unwrap.data,
         mask |-> PySlice(x_ma.mask, 0, k) \o end_unwrap.mask]

Masked == [masked |-> TRUE, v |-> 0]

Number(v) == [masked |-> FALSE, v |-> v]

\* x.mean() of a masked array: over the unmasked elements, masked if none
ma_mean(x) ==
    LET v == compressed(x)
    IN  IF v = <<>> THEN Masked ELSE Number(Quot(SeqSum(v), Len(v)))

\* lines 392-393
unf_system_max(unwrapped, notmeteo, system_zero) ==
    LET idx == np_where([i \in 1..Len(notmeteo) |-> ~notmeteo[i]])
        sel == [data |-> Take(unwrapped.data, idx), mask |-> Take(unwrapped.mask, idx)]
        last == [data |-> PySlice(sel.data, SysMaxFrom, SysMaxTo),
                 mask |-> PySlice(sel.mask, SysMaxFrom, SysMaxTo)]
        m == ma_mean(last)
    IN  IF m.masked THEN Masked ELSE Number(m.v - system_zero)

\* x[i] = value for a masked array x, a Python index i and a number that
\* may be ma.masked
ma_setitem(x, i, value) ==
    LET k == IF i < 0 THEN i + Len(x.data) + 1 ELSE i + 1
    IN  IF value.masked THEN [x EXCEPT !.mask[k] = TRUE]
        ELSE [x EXCEPT !.data[k] = value.v, !.mask[k] = FALSE]

\* mutant of unf_based: the anchors left out
unf_based_unanchored(unwrapped, system_zero, system_max) ==
    [data |-> [i \in 1..Len(unwrapped.data) |-> unwrapped.data[i] - system_zero],
     mask |-> unwrapped.mask]

\* lines 395-398: based after the two anchors are set
unf_based(unwrapped, system_zero, system_max) ==
    LET based == [data |-> [i \in 1..Len(unwrapped.data) |->
                               unwrapped.data[i] - system_zero],
                  mask |-> unwrapped.mask]
    IN  ma_setitem(ma_setitem(based, 0, Number(0)), -1, system_max)

\* np.interp(x, xp, fp) for one x, xp increasing and not empty
np_interp(x, xp, fp) ==
    IF x <= xp[1] THEN fp[1]
    ELSE IF x >= xp[Len(xp)] THEN fp[Len(fp)]
    ELSE LET k == CHOOSE j \in 1..(Len(xp) - 1) : xp[j] <= x /\ x < xp[j + 1]
         IN  fp[k] + Quot((fp[k + 1] - fp[k]) * (x - xp[k]), xp[k + 1] - xp[k])

\* mutant of unf_fixed: the masked gates keep their data
unf_fixed_raw(based) == based.data

\* lines 394-412: unwrapped_fixed
unf_fixed(based) ==
    LET valid == ValidIdx(based.mask)
        vals == Take(based.data, valid)
        fp == IF Len(valid) > FillSmoothOver
              THEN smooth1(vals, DefaultWindowLen, "hanning")
              ELSE vals
    IN  [i \in 1..Len(based.data) |->
            IF ~based.mask[i] THEN based.data[i] ELSE np_interp(i, valid, fp)]

\* lines 413-416
unf_row(c, unwrapped_fixed) ==
    IF c # 1 THEN unwrapped_fixed ELSE Const(Len(unwrapped_fixed), 0)

\* field['data'][:, 0:doc], or the field's data as it is when doc is None
unf_doc(data, doc) ==
    IF doc = None THEN data
    ELSE [r \in 1..Len(data) |-> PySlice(data[r], 0, doc[1])]

\* lines 350-357
unf_system_zero(rad, a) ==
    IF a.overide_sys_phase THEN a.sys_phase
    ELSE LET z == det_sys_phase(rad, DefaultNcpLev, DefaultRhvLev,
                                a.ncp_field, a.rhv_field, a.phidp_field)
         IN  IF z = NoEstimate THEN a.sys_phase ELSE z.v

\* lines 360-382 for ray radial (a Python index): notmeteo, x_ma and c
unf_ray_filter(rad, a, radial) ==
    LET my_z == unf_doc(rad.fields[a.refl_field].data, a.doc)[radial + 1]
        my_ncp == unf_doc(rad.fields[a.ncp_field].data, a.doc)[radial + 1]
        my_rhv == unf_doc(rad.fields[a.rhv_field].data, a.doc)[radial + 1]
        my_phidp == unf_doc(rad.fields[a.phidp_field].data, a.doc)[radial + 1]
        my_snr == snr(my_z, DefaultWindowLen)
        notmeteo == unf_notmeteo(my_ncp, my_rhv, my_snr, a.ncp_lev, a.rhohv_lev)
        f == unf_filter(masked_where(notmeteo, my_phidp), a.ncpts)
    IN  [notmeteo |-> notmeteo, x_ma |-> f.x_ma, c |-> f.c]

\* lines 383-399 for a ray: based, anchored
unf_ray_based(f, a, system_zero) ==
    LET unwrapped == unf_unwrap(f.x_ma, a.nowrap)
        system_max == unf_system_max(unwrapped, f.notmeteo, system_zero)
    IN  unf_based(unwrapped, system_zero, system_max)

\* one pass of the loop over the rays: the row of cordata
unf_ray(rad, a, system_zero, radial) ==
    LET f == unf_ray_filter(rad, a, radial)
    IN  unf_row(f.c, unf_fixed(unf_ray_based(f, a, system_zero)))

\* get_phidp_unf(radar, ...), a holding the other arguments
get_phidp_unf(rad, a) ==
    LET system_zero == unf_system_zero(rad, a)
        n == Len(rad.fields[a.rhv_field].data)
    IN  np_array2([r \in 1..n |-> unf_ray(rad, a, system_zero, r - 1)])

----------------------------------------------------------------------------
(* construct_A_matrix: a matrix is the sequence of its rows, an entry v is *)
(* held as v * Scale.  The parts of a filter of odd length are whole       *)
(* numbers: posn holds them as integers, as do the sizes and the offsets   *)
(* that are computed from it.                                              *)

\* np.zeros([rows, cols])
np_zeros(rows, cols) == np_array2([i \in 1..rows |-> [j \in 1..cols |-> 0]])

\* np.eye(n)
np_eye(n) ==
    np_array2([i \in 1..n |-> [j \in 1..n |-> IF i = j THEN Deg(1) ELSE 0]])

\* np.diag(v, k) of a 1-D v: the square matrix of size len(v) + |k| with v
\* on its k-th diagonal
np_diag(v, k) ==
    LET n == Len(v) + Abs(k)
    IN  np_array2([i \in 1..n |-> [j \in 1..n |->
            IF j - i = k THEN v[IF k >= 0 THEN i ELSE j] ELSE 0]])

\* a + b and a * c for matrices a, b of one shape and a number c
mat_add(a, b) ==
    np_array2([i \in 1..Len(a) |-> [j \in 1..Len(a[i]) |-> a[i][j] + b[i][j]]])

mat_scale(a, c) ==
    np_array2([i \in 1..Len(a) |-> [j \in 1..Len(a[i]) |-> Quot(a[i][j] * c, Scale)]])

\* np.bmat of one row of blocks with the same number of rows
bmat_row(blocks) ==
    np_array2([i \in 1..Len(blocks[1]) |->
        IF Len(blocks) = 2 THEN blocks[1][i] \o blocks[2][i]
        ELSE blocks[1][i] \o blocks[2][i] \o blocks[3][i]])

\* np.bmat of three rows of two blocks each
np_bmat(rows) == bmat_row(rows[1]) \o bmat_row(rows[2]) \o bmat_row(rows[3])

\* np.linspace(-(filter_length - 1) / 2, (filter_length - 1) / 2,
\* filter_length) for an odd filter_length
A_posn(filter_length) ==
    [d \in 1..filter_length |-> (d - 1) - (filter_length - 1) \div 2]

\* np.ones(n) raises ValueError for a negative n
A_ones_fail(n_gates, filt) ==
    LET m == n_gates - Len(filt) + 1
    IN  \/ m < 0
        \/ \E d \in 1..Len(filt) : m - Abs(A_posn(Len(filt))[d]) < 0

\* lines 460-466: M_matrix_middle after the passes 1..diag of the loop
RECURSIVE M_matrix_middle(_, _, _)
M_matrix_middle(n_gates, filt, diag) ==
    LET m == n_gates - Len(filt) + 1
        posn == A_posn(Len(filt))
    IN  IF diag = 0 THEN mat_scale(np_diag(Const(m, Deg(1)), 0), 0)
        ELSE mat_add(M_matrix_middle(n_gates, filt, diag - 1),
                     mat_scale(np_diag(Const(m - Abs(posn[diag]), Deg(1)),
                                       posn[diag]),
                               filt[diag]))

\* mutant of M_matrix: every row holds the whole filter, from its own
\* column on
M_matrix_full(n_gates, filt) ==
    LET m == n_gates - Len(filt) + 1
    IN  np_array2([j \in 1..m |-> [c \in 1..n_gates |->
            IF c - j \in 0..(Len(filt) - 1) THEN filt[c - j + 1] ELSE 0]])

\* lines 467-471: M_matrix_middle between side_pad columns of zeros
M_matrix(n_gates, filt) ==
    LET m == n_gates - Len(filt) + 1
        side_pad == (Len(filt) - 1) \div 2
    IN  bmat_row(<<np_zeros(m, side_pad),
                   M_matrix_middle(n_gates, filt, Len(filt)),
                   np_zeros(m, side_pad)>>)

\* construct_A_matrix(n_gates, filt), filt of odd length
construct_A_matrix(n_gates, filt) ==
    IF A_ones_fail(n_gates, filt) THEN Raised("ValueError")
    ELSE LET Identity == np_eye(n_gates)
             Z_matrix == np_zeros(n_gates - Len(filt) + 1, n_gates)
         IN  Returned(np_bmat(<<<<Identity, mat_scale(Identity, Deg(-1))>>,
                                <<Identity, Identity>>,
                                <<Z_matrix, M_matrix(n_gates, filt)>>>>))

----------------------------------------------------------------------------
(* fzl_index, det_process_range, sobel and phase_proc *)

\* defaults of phase_proc (lines 583-589) and the constants of its body
DefaultLowZ == 10

DefaultHighZ == 53

DefaultMinNcp == 5

DefaultMinRhv == 8

DefaultFzl == 4000

ProcNcpts == 2

ProcDoc == 15

PadGates == 16

KdpWindow == 35

LpWindow == 5

PhaseValidMax == 400

KdpValidMax == 20

UnfField == "unf_dp_phase_shift"

KdpField == "diff_phase"

\* min_phidp = 0.01 at the model's resolution
DefaultMinPhidp == Scale \div 100

\* p_r = 4 Re / 3 in metres (lines 97-98)
EarthRadius43 == 8494667

\* 1000 * sin(elevation * pi / 180) for the elevations of the volumes
Sin1000(elevation) ==
    CASE elevation = 0 -> 0
      [] elevation = 30 -> 500
      [] elevation = 90 -> 1000

\* (r^2 + p_r^2 + 2 r p_r sin(el))^0.5 - p_r in metres: r sin(el) +
\* r^2 cos(el)^2 / (2 p_r), which is the square root to within a millimetre
\* for the ranges of the volumes (below 10 km)
BeamRise(r, elevation) ==
    LET s == Sin1000(elevation)
    IN  Quot(r * s, 1000) +
        Quot(((r * r) \div 1000) * ((1000000 - s * s) \div 1000), 2 * EarthRadius43)

\* fzl_index: np.where(z < fzl)[0].max(); there must be a gate below fzl
fzl_index(fzl, ranges, elevation, radar_height) ==
    LET z == [i \in 1..Len(ranges) |-> radar_height + BeamRise(ranges[i], elevation)]
        below == np_where([i \in 1..Len(ranges) |-> z[i] < fzl])
    IN  SeqMax(below) - 1

\* det_process_range(radar, sweep, fzl, doc)
det_process_range(rad, sweep, fzl, doc) ==
    [gate_end |-> Min2(fzl_index(fzl, rad.range, rad.fixed_angle[sweep + 1],
                                 rad.altitude),
                       Len(rad.range) - doc),
     ray_start |-> rad.sweep_start[sweep + 1],
     ray_end |-> rad.sweep_end[sweep + 1]]

\* the kernel of sobel before it is normalised, times window_len - 1:
\* 2 i - (window_len - 1)
sobel_kernel(window_len) == [i \in 1..window_len |-> 2 * (i - 1) - (window_len - 1)]

\* sobel(x, window_len): -y[window_len / 2:len(x) + window_len / 2] /
\* (window_len / 3.0), y the convolution with the kernel over the sum of
\* its absolute values
sobel(x, window_len) ==
    LET s == reflect_pad(x, window_len)
        w == np_array(sobel_kernel(window_len))
        wsum == SeqSum([i \in 1..window_len |-> Abs(w[i])])
        a == IF Len(s) >= Len(w) THEN s ELSE w
        v == IF Len(s) >= Len(w) THEN w ELSE s
        y == np_array([k \in 1..(Len(a) - Len(v) + 1) |->
                          Quot(-3 * ConvAt(v, a, k - 1), wsum * window_len)])
    IN  smooth_trim(y, Len(x), window_len)

\* lines 648-653: the reflectivity plus offset, held within [low_z, high_z]
proc_z_mod(data, offset, low_z, high_z) ==
    np_array2([r \in 1..Len(data) |->
        [i \in 1..Len(data[r]) |->
            Min2(Max2(data[r][i] + offset, Deg(low_z)), Deg(high_z))]])

\* line 664: my_unf[:, -1] = my_unf[:, -2]
proc_last_gate(my_unf) ==
    np_array2([r \in 1..Len(my_unf) |->
        [i \in 1..Len(my_unf[r]) |->
            IF i = Len(my_unf[r]) THEN At(my_unf[r], FwdBound(-2, Len(my_unf[r])))
            ELSE my_unf[r][i]]])

\* lines 668-670: values below min_phidp are set to min_phidp
proc_phidp_mod(data, min_phidp) ==
    np_array2([r \in 1..Len(data) |->
        [i \in 1..Len(data[r]) |-> Max2(data[r][i], min_phidp)]])

\* data[start_ray:end_ray, start_gate:end_gate] = soln for a 2-D array
SetBlock(data, start_ray, end_ray, start_gate, end_gate, soln) ==
    LET r0 == FwdBound(start_ray, Len(data))
        r1 == FwdBound(end_ray, Len(data))
    IN  np_array2([r \in 1..Len(data) |->
            IF r0 <= r - 1 /\ r - 1 < r1
            THEN LET g0 == FwdBound(start_gate, Len(data[r]))
                     g1 == FwdBound(end_gate, Len(data[r]))
                 IN  [i \in 1..Len(data[r]) |->
                         IF g0 <= i - 1 /\ i - 1 < g1
                         THEN soln[r - r0][i - g0] ELSE data[r][i]]
            ELSE data[r]])

\* the running maximum of a row
RunningMax(x) == np_array([i \in 1..Len(x) |-> SeqMax(SubSeq(x, 1, i))])

\* the minimum of each gate and the gates after it
RunningMinBack(x) ==
    np_array([i \in 1..Len(x) |-> SeqMin(SubSeq(x, i, Len(x)))])

\* the primal values glpk may leave in the columns of a ray (lines 568-577).
\* The solver is outside this module: it returns a fit to the ray's phase
\* whose derivative is held at or above zero.  The model takes one of the
\* two extreme fits that never decrease, the running maximum of the phase
\* and its running minimum from the far end; both are the phase itself
\* when the phase never decreases
lp_primal(phidp_row) == <<RunningMax(phidp_row), RunningMinBack(phidp_row)>>

\* lines 578-579: the solution of a ray, smoothed
lp_smooth(this_soln) == smooth1(this_soln, LpWindow, "sg_smooth")

\* lines 702-704: the last PadGates gates of the rays start_ray:end_ray
\* take the value of the gate at index -PadGates
proc_pad(data, start_ray, end_ray) ==
    LET r0 == FwdBound(start_ray, Len(data))
        r1 == FwdBound(end_ray, Len(data))
    IN  np_array2([r \in 1..Len(data) |->
            IF r0 <= r - 1 /\ r - 1 < r1
            THEN LET g0 == FwdBound(-PadGates, Len(data[r]))
                 IN  [i \in 1..Len(data[r]) |->
                         IF i - 1 >= g0 THEN At(data[r], g0) ELSE data[r][i]]
            ELSE data[r]])

\* lines 709-713: kdp, dr the spacing of the first two gates in metres
proc_kdp_row(row, dr) ==
    LET sob == sobel(row, KdpWindow)
    IN  np_array([i \in 1..Len(sob) |-> Quot(sob[i] * 500, dr)])

proc_kdp(data, ranges) ==
    np_array([r \in 1..Len(data) |-> proc_kdp_row(data[r], ranges[2] - ranges[1])])

\* a field dictionary with the valid range set (lines 705-706, 714-723)
FieldOf(data, valid_max) ==
    [data |-> data, valid_min |-> 0, valid_max |-> Deg(valid_max)]

----------------------------------------------------------------------------
(* Each entry point is exercised by a driver of its own; the state of the  *)
(* other drivers is idle meanwhile.                                        *)

NoArray ==
    [data |-> <<>>, mask |-> <<>>]

NoRadar ==
    [fields |-> <<>>, sweep_start |-> <<>>, sweep_end |-> <<>>]

IdleUnwrap ==
    /\ u_pc = "idle"
    /\ u_lon = NoArray
    /\ u_centered = FALSE
    /\ u_out = NoArray
    /\ u_out2 = NoArray

IdleSmooth ==
    /\ s_pc = "idle"
    /\ s_x = [ndim |-> 1, data |-> <<>>]
    /\ s_window_len = 0
    /\ s_window = ""
    /\ s_out = Raised("none")

IdleSys ==
    /\ d_pc = "idle"
    /\ d_radial = 0
    /\ d_loc = SysLoc0
    /\ d_result = NoEstimate

IdleUnf ==
    /\ g_pc = "idle"
    /\ g_args = <<>>
    /\ g_system_zero = 0
    /\ g_radial = 0
    /\ g_f = <<>>
    /\ g_based = NoArray
    /\ g_cordata = <<>>

NoField == [data |-> <<>>]

IdleProc ==
    /\ p_pc = "idle"
    /\ p_args = <<>>
    /\ p_radar0 = NoRadar
    /\ p_z_mod = <<>>
    /\ p_proc_ph = NoField
    /\ p_sweep = 0
    /\ p_start_ray = 0
    /\ p_end_ray = 0
    /\ p_lp_log = <<>>
    /\ p_sob_kdp = NoField

IdleMat ==
    /\ a_pc = "idle"
    /\ a_n_gates = 0
    /\ a_filt = <<>>
    /\ a_out = Raised("none")

\* the drivers other than d are idle
Idle(d) ==
    /\ IF d = "mat" THEN TRUE ELSE IdleMat
    /\ IF d = "unwrap" THEN TRUE ELSE IdleUnwrap
    /\ IF d = "smooth" THEN TRUE ELSE IdleSmooth
    /\ IF d = "sys" THEN TRUE ELSE IdleSys
    /\ IF d = "unf" THEN TRUE ELSE IdleUnf
    /\ IF d = "proc" THEN TRUE ELSE IdleProc
    /\ IF d \in {"sys", "unf", "proc"} THEN TRUE ELSE radar = NoRadar

\* a step of driver d leaves the other drivers' state alone
Frame(d) ==
    /\ IF d = "mat" THEN TRUE ELSE UNCHANGED matVars
    /\ IF d = "unwrap" THEN TRUE ELSE UNCHANGED unwrapVars
    /\ IF d = "smooth" THEN TRUE ELSE UNCHANGED smoothVars
    /\ IF d = "sys" THEN TRUE ELSE UNCHANGED sysVars
    /\ IF d = "unf" THEN TRUE ELSE UNCHANGED unfVars
    /\ IF d = "proc" THEN TRUE ELSE UNCHANGED procVars

----------------------------------------------------------------------------
(* Driver of unwrap_masked: one call on any 1-D input, then a second call  *)
(* on the result with centered=True.                                       *)

\* the angles a sample may hold
Angles == {Deg(a) : a \in {-360, -270, -180, -90, 0, 90, 180, 270}}

InitUnwrap ==
    /\ u_pc = "call"
    /\ \E d \in SeqsUpTo(Angles, MaxLen) :
         \E m \in [1..Len(d) -> BOOLEAN] :
            u_lon = [data |-> d, mask |-> m]
    /\ u_centered = FALSE
    /\ u_out = NoArray
    /\ u_out2 = NoArray
    /\ Idle("unwrap")

Unwrap ==
    /\ u_pc = "call"
    /\ \E c \in BOOLEAN :
         /\ u_centered' = c
         /\ u_out' = unwrap_masked(u_lon, c)
    /\ u_pc' = "once"
    /\ UNCHANGED <<u_lon, u_out2>>
    /\ UNCHANGED radar
    /\ Frame("unwrap")

UnwrapAgain ==
    /\ u_pc = "once"
    /\ u_out2' = unwrap_masked(u_out, TRUE)
    /\ u_pc' = "twice"
    /\ UNCHANGED <<u_lon, u_centered, u_out>>
    /\ UNCHANGED radar
    /\ Frame("unwrap")

NextUnwrap == Unwrap \/ UnwrapAgain

SpecUnwrap == InitUnwrap /\ [][NextUnwrap]_vars

----------------------------------------------------------------------------
(* Driver of smooth_and_trim: one call on any x, window_len and window *)

\* kernel names a caller may pass: the six supported ones and two others
WindowNames == valid_windows \cup {"boxcar", "kaiser"}

\* the values a sample of x may hold
Samples == {Deg(0), Deg(10)}

InitSmooth ==
    /\ s_pc = "call"
    /\ \/ \E d \in SeqsUpTo(Samples, MaxX) : s_x = [ndim |-> 1, data |-> d]
       \/ \E r \in [1..2 -> Samples] : s_x = [ndim |-> 2, data |-> <<r, r>>]
    /\ s_window_len \in 1..MaxWin
    /\ s_window \in WindowNames
    /\ s_out = Raised("none")
    /\ Idle("smooth")

Smooth ==
    /\ s_pc = "call"
    /\ s_out' = smooth_and_trim(s_x, s_window_len, s_window)
    /\ s_pc' = "done"
    /\ UNCHANGED <<s_x, s_window_len, s_window>>
    /\ UNCHANGED radar
    /\ Frame("smooth")

NextSmooth == Smooth

SpecSmooth == InitSmooth /\ [][NextSmooth]_vars

----------------------------------------------------------------------------
(* Driver of _det_sys_phase: det_sys_phase(radar) on a volume whose rays   *)
(* are drawn from a family, one action per pass of the loop over the rays. *)

NcpField == "norm_coherent_power"

RhvField == "copol_coeff"

PhidpField == "dp_phase_shift"

ReflField == "reflectivity_horizontal"

\* the value tenths / 10
Tenths(t) == (t * Scale) \div 10

\* The rays of the family: n good gates among the gates from 30 on, at the
\* front or at the back of that range; the gates before gate 30 good or not;
\* what the other gates fail on ("ncp": coherence 0.2, "rhv": correlation
\* 0.3, "eq": coherence exactly at the level 0.4); the phase profile ph.
SysRayKinds ==
    { [n |-> 26, front |-> TRUE,  pre |-> TRUE,  bad |-> "ncp", ph |-> 1],
      [n |-> 25, front |-> TRUE,  pre |-> TRUE,  bad |-> "ncp", ph |-> 2],
      [n |-> 26, front |-> FALSE, pre |-> FALSE, bad |-> "rhv", ph |-> 2],
      [n |-> 0,  front |-> TRUE,  pre |-> TRUE,  bad |-> "rhv", ph |-> 1],
      [n |-> 25, front |-> FALSE, pre |-> FALSE, bad |-> "eq",  ph |-> 3],
      [n |-> 27, front |-> FALSE, pre |-> TRUE,  bad |-> "eq",  ph |-> 3] }

\* gate g (1-based) of a ray of kind k is a good one
SysGood(k, g, ngates) ==
    IF g <= SysFirstGate THEN k.pre
    ELSE IF k.front THEN g <= SysFirstGate + k.n
    ELSE g > ngates - k.n

\* the raw phase of gate g for profile ph: flat at -135, a ramp from 20 by
\* half a degree per gate, or 10 and 50 in turn
PhaseProfile(ph, g) ==
    CASE ph = 1 -> Deg(-135)
      [] ph = 2 -> Deg(20) + (g * Scale) \div 2
      [] ph = 3 -> IF g % 2 = 0 THEN Deg(10) ELSE Deg(50)

SysRayRows(k, ngates) ==
    [ncp |-> [g \in 1..ngates |->
                 IF SysGood(k, g, ngates) THEN Tenths(9)
                 ELSE IF k.bad = "ncp" THEN Tenths(2)
                 ELSE IF k.bad = "eq" THEN Tenths(DefaultNcpLev)
                 ELSE Tenths(9)],
     rhv |-> [g \in 1..ngates |->
                 IF SysGood(k, g, ngates) THEN Tenths(9)
                 ELSE IF k.bad = "rhv" THEN Tenths(3) ELSE Tenths(9)],
     phidp |-> [g \in 1..ngates |-> PhaseProfile(k.ph, g)]]

\* the volume whose ray r is of kind kinds[r], the first sweep ending with
\* ray last (a Python index) and a second sweep holding the other rays
SysRadar(kinds, last) ==
    LET rows == [r \in 1..Len(kinds) |-> SysRayRows(kinds[r], SysGates)]
        n == Len(kinds)
    IN  [fields |->
            (NcpField :> [data |-> [r \in 1..n |-> rows[r].ncp]]) @@
            (RhvField :> [data |-> [r \in 1..n |-> rows[r].rhv]]) @@
            (PhidpField :> [data |-> [r \in 1..n |-> rows[r].phidp]]),
         sweep_start |-> IF last = n - 1 THEN <<0>> ELSE <<0, last + 1>>,
         sweep_end |-> IF last = n - 1 THEN <<last>> ELSE <<last, n - 1>>]

InitSys ==
    /\ \E n \in 1..MaxSysRays :
         \E kinds \in [1..n -> SysRayKinds] :
            \E last \in 0..(n - 1) :
               radar = SysRadar(kinds, last)
    /\ d_pc = "call"
    /\ d_radial = 0
    /\ d_loc = SysLoc0
    /\ d_result = NoEstimate
    /\ Idle("sys")

d_ncp == sys_slice(radar.fields[NcpField].data)

d_rhv == sys_slice(radar.fields[RhvField].data)

d_phidp == sys_slice(radar.fields[PhidpField].data)

d_last_ray_idx == radar.sweep_end[1]

\* lines 57-58: good = False, phases = []
DetSysCall ==
    /\ d_pc = "call"
    /\ d_loc' = SysLoc0
    /\ d_radial' = 0
    /\ d_pc' = "loop"
    /\ UNCHANGED <<radar, d_result>>
    /\ Frame("sys")

\* lines 59-66: one pass of the loop
DetSysRay ==
    /\ d_pc = "loop"
    /\ sys_in_range(d_radial, d_last_ray_idx)
    /\ d_loc' = sys_ray(d_loc, d_ncp[d_radial + 1], d_rhv[d_radial + 1],
                        d_phidp[d_radial + 1], DefaultNcpLev, DefaultRhvLev)
    /\ d_radial' = d_radial + 1
    /\ UNCHANGED <<radar, d_pc, d_result>>
    /\ Frame("sys")

\* lines 67-69
DetSysReturn ==
    /\ d_pc = "loop"
    /\ ~sys_in_range(d_radial, d_last_ray_idx)
    /\ d_result' = sys_return(d_loc)
    /\ d_pc' = "done"
    /\ UNCHANGED <<radar, d_radial, d_loc>>
    /\ Frame("sys")

NextSys == DetSysCall \/ DetSysRay \/ DetSysReturn

SpecSys == InitSys /\ [][NextSys]_vars

----------------------------------------------------------------------------
(* Driver of get_phidp_unf: one call on a volume drawn from four           *)
(* families, the body of the loop over the rays in three steps (the run    *)
(* filter, unwrapping and anchoring, filling in).  Every ray has at least  *)
(* DefaultWindowLen gates, as snr requires, and at least one gate that     *)
(* fails the quality test, so that the mask of x_ma is an array.           *)

\* the raw phase of gate g of a ramp of 50 degrees per gate folded into
\* [-180, 180)
FoldedRamp(g) == ((Deg(50) * g + Deg(180)) % Deg(360)) - Deg(180)

\* reflectivity of gate g: flat at 30 dBZ, or 0 and 40 dBZ in turn
ReflProfile(noisy, g) ==
    IF ~noisy THEN Deg(30) ELSE IF g % 2 = 0 THEN Deg(0) ELSE Deg(40)

\* the volume with the given rows of the four fields, in sweeps that end
\* with the rays ends (Python indices)
Volume(z, ncp, rhv, phidp, ends) ==
    [fields |->
        (ReflField :> [data |-> z]) @@
        (NcpField :> [data |-> ncp]) @@
        (RhvField :> [data |-> rhv]) @@
        (PhidpField :> [data |-> phidp]),
     sweep_start |-> [k \in 1..Len(ends) |-> IF k = 1 THEN 0 ELSE ends[k - 1] + 1],
     sweep_end |-> ends]

\* a short ray whose gates in the set bad (1-based) have coherence 0.2
ShortRay(bad, noisy) ==
    [z |-> [g \in 1..UnfGates |-> ReflProfile(noisy, g)],
     ncp |-> [g \in 1..UnfGates |-> IF g \in bad THEN Tenths(2) ELSE Tenths(9)],
     rhv |-> [g \in 1..UnfGates |-> Tenths(9)],
     phidp |-> [g \in 1..UnfGates |-> FoldedRamp(g)]]

\* a long ray: a ray of the family of _det_sys_phase with a reflectivity
LongRay(k, noisy) ==
    LET rows == SysRayRows(k, SysGates)
    IN  [z |-> [g \in 1..SysGates |-> ReflProfile(noisy, g)],
         ncp |-> rows.ncp, rhv |-> rows.rhv, phidp |-> rows.phidp]

VolumeOf(rays, ends) ==
    Volume([r \in 1..Len(rays) |-> rays[r].z],
           [r \in 1..Len(rays) |-> rays[r].ncp],
           [r \in 1..Len(rays) |-> rays[r].rhv],
           [r \in 1..Len(rays) |-> rays[r].phidp], ends)

\* the short rays of the two-ray volumes: good gates 3..8 (Python indices);
\* no good gate; good gates throughout but a noisy reflectivity; single
\* good gates 2, 5 and 8; good gates 0..4
ShortRays ==
    { ShortRay({1, 2, 3, 10, 11, 12}, FALSE),
      ShortRay(1..UnfGates, FALSE),
      ShortRay({UnfGates}, TRUE),
      ShortRay((1..UnfGates) \ {3, 6, 9}, FALSE),
      ShortRay(6..UnfGates, FALSE) }

\* a long ray with the good gates 4..7 and, after them, ten good gates on
\* their own: 9, 11, ..., 27 (Python indices)
SpeckleRay ==
    [z |-> [g \in 1..SysGates |-> ReflProfile(FALSE, g)],
     ncp |-> [g \in 1..SysGates |->
                 IF g \in 5..8 \/ (g \in 10..28 /\ g % 2 = 0)
                 THEN Tenths(9) ELSE Tenths(2)],
     rhv |-> [g \in 1..SysGates |-> Tenths(9)],
     phidp |-> [g \in 1..SysGates |-> PhaseProfile(2, g)]]

\* the long rays
LongRays ==
    { LongRay([n |-> 26, front |-> FALSE, pre |-> FALSE, bad |-> "rhv", ph |-> 2], FALSE),
      LongRay([n |-> 27, front |-> FALSE, pre |-> TRUE,  bad |-> "eq",  ph |-> 3], TRUE),
      LongRay([n |-> 26, front |-> TRUE,  pre |-> TRUE,  bad |-> "ncp", ph |-> 1], FALSE),
      LongRay([n |-> 0,  front |-> TRUE,  pre |-> FALSE, bad |-> "ncp", ph |-> 1], FALSE) }

UnfArgs(ncp_lev, rhohv_lev, ncpts, doc, overide_sys_phase, sys_phase, nowrap) ==
    [ncp_lev |-> ncp_lev, rhohv_lev |-> rhohv_lev, ncpts |-> ncpts,
     doc |-> doc, overide_sys_phase |-> overide_sys_phase,
     sys_phase |-> sys_phase, nowrap |-> nowrap,
     refl_field |-> ReflField, ncp_field |-> NcpField,
     rhv_field |-> RhvField, phidp_field |-> PhidpField]

InitUnf ==
    /\ \/ \E bad \in (SUBSET (1..UnfGates)) \ {{}} :
             /\ radar = VolumeOf(<<ShortRay(bad, FALSE)>>, <<0>>)
             /\ g_args = UnfArgs(DefaultNcpLev, DefaultRhvLev, 2, None,
                                 FALSE, Deg(-135), None)
       \/ \E r1, r2 \in ShortRays :
             \E ncpts \in {2, 3} : \E doc \in {None, Some(-1)} :
                \E nowrap \in {None, Some(4)} : \E ov \in BOOLEAN :
                   /\ radar = VolumeOf(<<r1, r2>>, <<1>>)
                   /\ g_args = UnfArgs(DefaultNcpLev, DefaultRhvLev, ncpts, doc,
                                       ov, Deg(-135), nowrap)
       \/ \E n \in 2..3 : \E rays \in [1..n -> LongRays] :
             \E ncpts \in {2, 20} : \E ov \in BOOLEAN :
                /\ radar = VolumeOf(rays, IF n = 2 THEN <<1>> ELSE <<1, n - 1>>)
                /\ g_args = UnfArgs(5, 8, ncpts, None, ov, Deg(0), None)
       \/ \E ov \in BOOLEAN :
             /\ radar = VolumeOf(<<SpeckleRay>>, <<0>>)
             /\ g_args = UnfArgs(DefaultNcpLev, DefaultRhvLev, 2, None,
                                 ov, Deg(0), None)
    /\ g_pc = "call"
    /\ g_system_zero = 0
    /\ g_radial = 0
    /\ g_f = <<>>
    /\ g_based = NoArray
    /\ g_cordata = <<>>
    /\ Idle("unf")

g_nrays == Len(radar.fields[g_args.rhv_field].data)

g_ngates == Len(unf_doc(radar.fields[g_args.rhv_field].data, g_args.doc)[1])

\* lines 350-358: system_zero, cordata = np.zeros(my_rhv.shape)
UnfCall ==
    /\ g_pc = "call"
    /\ g_system_zero' = unf_system_zero(radar, g_args)
    /\ g_cordata' = [r \in 1..g_nrays |-> Const(g_ngates, 0)]
    /\ g_radial' = 0
    /\ g_pc' = "filter"
    /\ UNCHANGED <<radar, g_args, g_f, g_based>>
    /\ Frame("unf")

\* lines 360-382 of a pass of the loop over the rays
UnfFilter ==
    /\ g_pc = "filter"
    /\ g_radial < g_nrays
    /\ g_f' = unf_ray_filter(radar, g_args, g_radial)
    /\ g_pc' = "unwrap"
    /\ UNCHANGED <<radar, g_args, g_system_zero, g_radial, g_based, g_cordata>>
    /\ Frame("unf")

\* lines 383-399
UnfUnwrap ==
    /\ g_pc = "unwrap"
    /\ g_based' = unf_ray_based(g_f, g_args, g_system_zero)
    /\ g_pc' = "fill"
    /\ UNCHANGED <<radar, g_args, g_system_zero, g_radial, g_f, g_cordata>>
    /\ Frame("unf")

\* lines 400-416
UnfFill ==
    /\ g_pc = "fill"
    /\ g_cordata' = [g_cordata EXCEPT ![g_radial + 1] = unf_row(g_f.c, unf_fixed(g_based))]
    /\ g_radial' = g_radial + 1
    /\ g_pc' = "filter"
    /\ UNCHANGED <<radar, g_args, g_system_zero, g_f, g_based>>
    /\ Frame("unf")

\* line 419
UnfReturn ==
    /\ g_pc = "filter"
    /\ g_radial = g_nrays
    /\ g_pc' = "done"
    /\ UNCHANGED <<radar, g_args, g_system_zero, g_radial, g_f, g_based, g_cordata>>
    /\ Frame("unf")

NextUnf == UnfCall \/ UnfFilter \/ UnfUnwrap \/ UnfFill \/ UnfReturn

SpecUnf == InitUnf /\ [][NextUnf]_vars

----------------------------------------------------------------------------
(* Driver of phase_proc: one call on a volume of rays of ProcGates gates   *)
(* in sweeps of at least two rays, the loop over the sweeps one pass at a  *)
(* time.  The freezing level is above the first gates of every sweep, so   *)
(* that fzl_index and construct_A_matrix have gates to work on.            *)

\* a ray of a volume handed to phase_proc: its gates in the set bad fail
\* the coherence test, its raw phase starts at first degrees and gains step
\* degrees per gate, folded into [-180, 180)
ProcRay(bad, first, step) ==
    [z |-> [g \in 1..ProcGates |-> Deg(30)],
     ncp |-> [g \in 1..ProcGates |-> IF g \in bad THEN Tenths(2) ELSE Tenths(9)],
     rhv |-> [g \in 1..ProcGates |-> Tenths(9)],
     phidp |-> [g \in 1..ProcGates |->
                   ((Deg(first) + Deg(step) * (g - 1) + Deg(180)) % Deg(360))
                   - Deg(180)]]

\* a slow rise, a steep rise that folds, no good gate, a fall
ProcRays ==
    { ProcRay({1, 2}, 10, 1),
      ProcRay({1, 2, ProcGates - 1, ProcGates}, 60, 5),
      ProcRay(1..ProcGates, 0, 0),
      ProcRay({1, 2}, 100, -2) }

\* the volume of the rays in sweeps that end with the rays ends, at the
\* elevations angles, with or without a field named kdp_field
ProcVolume(rays, ends, angles, with_kdp) ==
    LET v == VolumeOf(rays, ends)
    IN  [fields |-> IF with_kdp
                    THEN (KdpField :> [data |-> [r \in 1..Len(rays) |->
                                                    Const(ProcGates, 0)]])
                         @@ v.fields
                    ELSE v.fields,
         sweep_start |-> v.sweep_start,
         sweep_end |-> v.sweep_end,
         range |-> [g \in 1..ProcGates |-> (g - 1) * GateSpacing],
         fixed_angle |-> angles,
         altitude |-> 0]

\* the arguments of phase_proc that the model keeps, at their defaults but
\* for fzl
ProcArgs(fzl) ==
    [offset |-> 0, low_z |-> DefaultLowZ, high_z |-> DefaultHighZ,
     min_phidp |-> DefaultMinPhidp, min_ncp |-> DefaultMinNcp,
     min_rhv |-> DefaultMinRhv, fzl |-> fzl, sys_phase |-> 0,
     overide_sys_phase |-> FALSE, nowrap |-> None,
     refl_field |-> ReflField, ncp_field |-> NcpField,
     rhv_field |-> RhvField, phidp_field |-> PhidpField,
     kdp_field |-> KdpField]

InitProc ==
    /\ \E r1, r2 \in ProcRays : \E with_kdp \in BOOLEAN :
          \E layout \in 1..3 :
             radar = CASE layout = 1 -> ProcVolume(<<r1, r2>>, <<1>>, <<90>>, with_kdp)
                       [] layout = 2 -> ProcVolume(<<r1, r2, r1>>, <<2>>, <<30>>, with_kdp)
                       [] layout = 3 -> ProcVolume(<<r1, r2, r2, r1>>, <<1, 3>>,
                                                   <<0, 90>>, with_kdp)
    /\ \E fzl \in {DefaultFzl, DefaultFzl \div 4} : p_args = ProcArgs(fzl)
    /\ p_radar0 = radar
    /\ p_pc = "call"
    /\ p_z_mod = <<>>
    /\ p_proc_ph = NoField
    /\ p_sweep = 0
    /\ p_start_ray = 0
    /\ p_end_ray = 0
    /\ p_lp_log = <<>>
    /\ p_sob_kdp = NoField
    /\ Idle("proc")

p_nsweeps == Len(radar.sweep_start)

\* lines 648-673: z_mod, the unfolded phase, which is stored in the radar,
\* phidp_mod and proc_ph
ProcCall ==
    /\ p_pc = "call"
    /\ LET a == p_args
           my_unf == proc_last_gate(get_phidp_unf(radar,
                        [ncp_lev |-> a.min_ncp, rhohv_lev |-> a.min_rhv,
                         ncpts |-> ProcNcpts, doc |-> None,
                         overide_sys_phase |-> a.overide_sys_phase,
                         sys_phase |-> a.sys_phase, nowrap |-> a.nowrap,
                         refl_field |-> a.refl_field, ncp_field |-> a.ncp_field,
                         rhv_field |-> a.rhv_field,
                         phidp_field |-> a.phidp_field]))
           my_new_ph == [radar.fields[a.phidp_field] EXCEPT !.data = my_unf]
           fields == (UnfField :> my_new_ph) @@ radar.fields
       IN  /\ p_z_mod' = proc_z_mod(radar.fields[a.refl_field].data, a.offset,
                                    a.low_z, a.high_z)
           /\ radar' = [radar EXCEPT !.fields = fields]
           /\ p_proc_ph' = [radar.fields[a.phidp_field] EXCEPT
                               !.data = proc_phidp_mod(fields[UnfField].data,
                                                       a.min_phidp)]
    /\ p_sweep' = 0
    /\ p_pc' = "sweep"
    /\ UNCHANGED <<p_args, p_radar0, p_start_ray, p_end_ray, p_lp_log, p_sob_kdp>>
    /\ Frame("proc")

\* LP_solver on the rays of a block: for every ray a solution the solver
\* may return, smoothed
LP_solver(block) ==
    { np_array([r \in 1..Len(block) |-> lp_smooth(lp_primal(block[r])[pick[r]])]) :
        pick \in [1..Len(block) -> 1..2] }

\* lines 676-700: a pass of the loop over the sweeps
ProcSweep ==
    /\ p_pc = "sweep"
    /\ p_sweep < p_nsweeps
    /\ LET rng == det_process_range(radar, p_sweep, p_args.fzl, ProcDoc)
           block == np_array([r \in 1..(rng.ray_end - rng.ray_start) |->
                        PySlice(p_proc_ph.data[rng.ray_start + r], 0, rng.gate_end)])
       IN  /\ \E mysoln \in LP_solver(block) :
                 p_proc_ph' = [p_proc_ph EXCEPT
                                  !.data = SetBlock(p_proc_ph.data, rng.ray_start,
                                                    rng.ray_end, 0, rng.gate_end,
                                                    mysoln)]
           /\ p_start_ray' = rng.ray_start
           /\ p_end_ray' = rng.ray_end
           /\ p_lp_log' = Append(p_lp_log,
                                 [sweep |-> p_sweep, start_ray |-> rng.ray_start,
                                  end_ray |-> rng.ray_end, start_gate |-> 0,
                                  end_gate |-> rng.gate_end])
    /\ p_sweep' = p_sweep + 1
    /\ UNCHANGED <<radar, p_pc, p_args, p_radar0, p_z_mod, p_sob_kdp>>
    /\ Frame("proc")

\* lines 702-706: the last gates of the rays of the last pass, valid range
ProcPad ==
    /\ p_pc = "sweep"
    /\ p_sweep = p_nsweeps
    /\ p_proc_ph' = FieldOf(proc_pad(p_proc_ph.data, p_start_ray, p_end_ray),
                            PhaseValidMax) @@ p_proc_ph
    /\ p_pc' = "kdp"
    /\ UNCHANGED <<radar, p_args, p_radar0, p_z_mod, p_sweep, p_start_ray,
                   p_end_ray, p_lp_log, p_sob_kdp>>
    /\ Frame("proc")

\* lines 708-731: kdp, sob_kdp and the return
ProcKdp ==
    /\ p_pc = "kdp"
    /\ LET kdp == FieldOf(proc_kdp(p_proc_ph.data, radar.range), KdpValidMax)
       IN  p_sob_kdp' =
              IF p_args.kdp_field \in DOMAIN radar.fields
              THEN kdp @@ radar.fields[p_args.kdp_field]
              ELSE kdp @@ [standard_name |-> "specific_differential_phase_hv",
                           units |-> "degrees/km"]
                       @@ radar.fields[p_args.phidp_field]
    /\ p_pc' = "done"
    /\ UNCHANGED <<radar, p_args, p_radar0, p_z_mod, p_proc_ph, p_sweep,
                   p_start_ray, p_end_ray, p_lp_log>>
    /\ Frame("proc")

NextProc == ProcCall \/ ProcSweep \/ ProcPad \/ ProcKdp

SpecProc == InitProc /\ [][NextProc]_vars

----------------------------------------------------------------------------
(* Driver of construct_A_matrix: one call with a filter of odd length that *)
(* is not longer than n_gates.                                             *)

\* line 675: the filter that phase_proc hands over
St_Gorlv_differential_5pts == <<Tenths(-2), Tenths(-1), 0, Tenths(1), Tenths(2)>>

\* the values of the parts of the other filters
FilterParts == {Tenths(-1), 0, Tenths(2)}

\* the filters: every one of length 1 or 3 over FilterParts, and three of
\* length 5
Filters ==
    [1..1 -> FilterParts] \cup [1..3 -> FilterParts] \cup
    { St_Gorlv_differential_5pts,
      <<Tenths(1), Tenths(2), Tenths(3), Tenths(4), Tenths(5)>>,
      <<Tenths(3), Tenths(3), Tenths(3), Tenths(3), Tenths(3)>> }

InitMat ==
    /\ a_pc = "call"
    /\ a_n_gates \in 1..MaxGatesA
    /\ a_filt \in {f \in Filters : Len(f) <= a_n_gates}
    /\ a_out = Raised("none")
    /\ radar = NoRadar
    /\ Idle("mat")

\* lines 458-474
ConstructA ==
    /\ a_pc = "call"
    /\ a_out' = construct_A_matrix(a_n_gates, a_filt)
    /\ a_pc' = "done"
    /\ UNCHANGED <<radar, a_n_gates, a_filt>>
    /\ Frame("mat")

NextMat == ConstructA

SpecMat == InitMat /\ [][NextMat]_vars

----------------------------------------------------------------------------
(* Properties of unwrap_masked *)

\* the largest step between neighbouring unmasked samples
MaxStep(lon) ==
    LET x == compressed(lon)
    IN  IF Len(x) < 2 THEN 0
        ELSE CHOOSE s \in {Abs(x[i + 1] - x[i]) : i \in 1..(Len(x) - 1)} :
                \A i \in 1..(Len(x) - 1) : Abs(x[i + 1] - x[i]) <= s

\* max - min of the unmasked samples
Spread(lon) ==
    LET x == compressed(lon)
    IN  IF Len(x) < 2 THEN 0
        ELSE CHOOSE s \in {Abs(x[i] - x[j]) : i, j \in 1..Len(x)} :
                \A i, j \in 1..Len(x) : Abs(x[i] - x[j]) <= s

\* every unmasked sample of b is that of a moved by k whole turns
ShiftedBy(a, b, k) ==
    /\ Len(b.data) = Len(a.data)
    /\ b.mask = a.mask
    /\ \A i \in 1..Len(a.data) : ~a.mask[i] => b.data[i] - a.data[i] = k * Turn

\* C1: each valid position of unwrap_masked's output differs from the input
\* value at that position by an integer multiple of 360 (masked or not,
\* centered or not); the mask and the length are those of the input.
C1_CongruentMod360 ==
    u_pc \in {"once", "twice"} =>
        /\ Len(u_out.data) = Len(u_lon.data)
        /\ u_out.mask = u_lon.mask
        /\ \A i \in 1..Len(u_lon.data) :
              ~u_lon.mask[i] => (u_out.data[i] - u_lon.data[i]) % Turn = 0

\* C1 witness: a centered call on a sequence with a masked gate moved a sample
C1_Witness ==
    /\ u_pc = "once"
    /\ u_centered
    /\ \E i \in 1..Len(u_lon.data) : u_lon.mask[i]
    /\ \E i, j \in 1..Len(u_lon.data) :
          /\ ~u_lon.mask[i] /\ ~u_lon.mask[j]
          /\ u_out.data[i] # u_lon.data[i]
          /\ u_out.data[j] - u_lon.data[j] # u_out.data[i] - u_lon.data[i]

\* C2 as claimed: for every input, the second pass (centered=True) moves all
\* valid samples of the first pass's output by one and the same multiple of 360.
C2_IdempotentAnyInput ==
    u_pc = "twice" => \E k \in -8..8 : ShiftedBy(u_out, u_out2, k)

\* C2 amended: when no two neighbouring valid samples of the input are more
\* than 540 degrees apart, the second pass (centered=True) moves all valid
\* samples of the first pass's output by one and the same multiple of 360.
C2_IdempotentBoundedSteps ==
    (u_pc = "twice" /\ MaxStep(u_lon) <= Turn + HalfTurn) =>
        \E k \in -8..8 : ShiftedBy(u_out, u_out2, k)

\* C2 witness: the input had a fold, the first pass removed it and the second
\* pass moved the whole sequence by a non-zero number of turns
C2_Witness ==
    /\ u_pc = "twice"
    /\ MaxStep(u_lon) > HalfTurn
    /\ MaxStep(u_lon) <= Turn + HalfTurn
    /\ Len(compressed(u_lon)) >= 2
    /\ \E k \in {-2, -1, 1, 2} : ShiftedBy(u_out, u_out2, k)

\* C3: when the valid samples of the input lie within one 360-degree interval,
\* no two neighbouring valid samples of the output are more than 180 apart,
\* also when masked gates lie between them.
C3_NoJumpLeft ==
    (u_pc \in {"once", "twice"} /\ Spread(u_lon) <= Turn) =>
        MaxStep(u_out) <= HalfTurn

\* C3 witness: a jump of more than 180 across a masked gate was removed
C3_Witness ==
    /\ u_pc = "once"
    /\ Spread(u_lon) <= Turn
    /\ Len(u_lon.data) = 3
    /\ ~u_lon.mask[1] /\ u_lon.mask[2] /\ ~u_lon.mask[3]
    /\ u_lon.data[3] - u_lon.data[1] > HalfTurn
    /\ Abs(u_out.data[3] - u_out.data[1]) <= HalfTurn

----------------------------------------------------------------------------
(* Properties of smooth_and_trim *)

\* C4: for every supported kernel name, every odd window_len >= 3 and every
\* 1-D x with len(x) >= window_len, smooth_and_trim returns exactly len(x)
\* samples.
C4_LengthKept ==
    ( /\ s_pc = "done"
      /\ s_x.ndim = 1
      /\ s_window \in valid_windows
      /\ s_window_len >= 3 /\ s_window_len % 2 = 1
      /\ Len(s_x.data) >= s_window_len )
    => (s_out.kind = "ok" /\ Len(s_out.y) = Len(s_x.data))

\* C5 as claimed: with a kernel name that is not supported, smooth_and_trim
\* fails with a ValueError and returns nothing, whatever x and window_len.
C5_BadNameAlwaysFails ==
    (s_pc = "done" /\ s_window \notin valid_windows) =>
        s_out.kind = "ValueError"

\* C5 amended: with a kernel name that is not supported, smooth_and_trim
\* fails with a ValueError unless x is 1-D, window_len < 3 and
\* len(x) >= window_len; in that case it returns x unchanged.
C5_BadNameFailsFromLen3 ==
    (s_pc = "done" /\ s_window \notin valid_windows) =>
        IF s_x.ndim = 1 /\ s_window_len < 3 /\ Len(s_x.data) >= s_window_len
        THEN s_out = Returned(s_x.data)
        ELSE s_out = Raised("ValueError")

\* C5 witness: a 1-D x that is long enough, a window_len >= 3 and an unknown
\* kernel name: the call failed on the name
C5_Witness ==
    /\ s_pc = "done"
    /\ s_window = "boxcar"
    /\ s_x.ndim = 1
    /\ s_window_len >= 3
    /\ Len(s_x.data) >= s_window_len
    /\ s_out.kind = "ValueError"

----------------------------------------------------------------------------
(* Properties of _det_sys_phase *)

\* ray r (a Python index) of the volume has more than 25 gates, among the
\* gates from 30 on, with coherence > 0.4 and correlation > 0.6
SysQualifies(r) ==
    LET ncp == radar.fields[NcpField].data[r + 1]
        rhv == radar.fields[RhvField].data[r + 1]
    IN  Cardinality({g \in (SysFirstGate + 1)..Len(ncp) :
                        10 * ncp[g] > DefaultNcpLev * Scale
                        /\ 10 * rhv[g] > DefaultRhvLev * Scale}) > SysMinGates

\* the rays of the first sweep that qualify
SysQualifying == {r \in 0..radar.sweep_end[1] : SysQualifies(r)}

\* the sample of a qualifying ray r: the least of the first 25 values of
\* its smoothed phase, taken over its good gates from 30 on
SysSampleOf(r) ==
    LET ncp == radar.fields[NcpField].data[r + 1]
        rhv == radar.fields[RhvField].data[r + 1]
        good == {g \in (SysFirstGate + 1)..Len(ncp) :
                    10 * ncp[g] > DefaultNcpLev * Scale
                    /\ 10 * rhv[g] > DefaultRhvLev * Scale}
        idx == np_where([g \in 1..Len(ncp) |-> g \in good])
        sm == smooth1(Take(radar.fields[PhidpField].data[r + 1], idx),
                      SysWindow, "hanning")
    IN  SeqMin(SubSeq(sm, 1, SysHead))

\* m is a median of the non-empty list xs
IsMedian(m, xs) ==
    LET n == Len(xs)
        le == Cardinality({i \in 1..n : xs[i] <= m})
        ge == Cardinality({i \in 1..n : xs[i] >= m})
    IN  /\ 2 * le >= n
        /\ 2 * ge >= n
        /\ n % 2 = 1 => \E i \in 1..n : xs[i] = m
        /\ n % 2 = 0 => \E i, j \in 1..n :
                           /\ i # j
                           /\ 2 * m - 1 <= xs[i] + xs[j]
                           /\ xs[i] + xs[j] <= 2 * m + 1
                           /\ Cardinality({k \in 1..n : xs[k] < Min2(xs[i], xs[j])})
                                <= n \div 2 - 1
                           /\ Cardinality({k \in 1..n : xs[k] > Max2(xs[i], xs[j])})
                                <= n \div 2 - 1

\* C9: _det_sys_phase returns None exactly when no ray 0..last_ray_idx
\* (inclusive) has more than 25 good gates among the gates from 30 on;
\* otherwise it returns the median of one sample per qualifying ray.
C9_NoneIffNoQualifyingRay ==
    d_pc = "done" =>
        /\ (d_result = NoEstimate) <=> (SysQualifying = {})
        /\ SysQualifying # {} =>
              /\ d_result.kind = "value"
              /\ Len(d_loc.phases) = Cardinality(SysQualifying)
              /\ \A k \in 1..Len(d_loc.phases) :
                    \E r \in SysQualifying :
                       /\ Cardinality({q \in SysQualifying : q < r}) = k - 1
                       /\ d_loc.phases[k] = SysSampleOf(r)
              /\ IsMedian(d_result.v, d_loc.phases)

\* C9 witness: two rays of the first sweep qualify and give different
\* samples, one does not, and an estimate is returned
C9_Witness ==
    /\ d_pc = "done"
    /\ d_result.kind = "value"
    /\ Cardinality(SysQualifying) = 2
    /\ radar.sweep_end[1] = 2
    /\ d_loc.phases[1] # d_loc.phases[2]


----------------------------------------------------------------------------
(* Properties of get_phidp_unf *)

\* the first and the last position of the maximal unmasked run that holds
\* the unmasked position i
RECURSIVE RunFirst(_, _)
RunFirst(mask, i) == IF i > 1 /\ ~mask[i - 1] THEN RunFirst(mask, i - 1) ELSE i

RECURSIVE RunLast(_, _)
RunLast(mask, i) ==
    IF i < Len(mask) /\ ~mask[i + 1] THEN RunLast(mask, i + 1) ELSE i

\* C10: after the run filter every gate of the ray that is still unmasked
\* lies in a maximal unmasked run of at least ncpts gates whose first gate
\* index is at least ncpts
C10_SurvivorsLongAndLate ==
    g_pc = "unwrap" =>
        \A i \in 1..Len(g_f.x_ma.mask) :
            ~g_f.x_ma.mask[i] =>
                LET first == RunFirst(g_f.x_ma.mask, i)
                    last == RunLast(g_f.x_ma.mask, i)
                IN  /\ last - first + 1 >= g_args.ncpts
                    /\ first - 1 >= g_args.ncpts

\* ray r (a Python index) has no gate left after the quality mask and the
\* run filter
Degenerate(rad, a, r) ==
    LET mask == np_array(unf_ray_filter(rad, a, r).x_ma.mask)
    IN  \A i \in 1..Len(mask) : mask[i]

\* the volume without ray r
RemoveRay(rad, r) ==
    [fields |-> [f \in DOMAIN rad.fields |->
                    [data |-> SubSeq(rad.fields[f].data, 1, r) \o
                              SubSeq(rad.fields[f].data, r + 2,
                                     Len(rad.fields[f].data))]],
     sweep_start |-> [k \in 1..Len(rad.sweep_start) |->
                         IF rad.sweep_start[k] > r THEN rad.sweep_start[k] - 1
                         ELSE rad.sweep_start[k]],
     sweep_end |-> [k \in 1..Len(rad.sweep_end) |->
                       IF rad.sweep_end[k] >= r THEN rad.sweep_end[k] - 1
                       ELSE rad.sweep_end[k]]]

\* the rows of the rays other than r are those of the call on the volume
\* without r
OthersAsIfAbsent(r) ==
    LET without == get_phidp_unf(RemoveRay(radar, r), g_args)
    IN  \A q \in 0..(g_nrays - 1) :
            q # r => g_cordata[q + 1] = without[IF q < r THEN q + 1 ELSE q]

ZeroRow(r) == \A i \in 1..g_ngates : g_cordata[r + 1][i] = 0

\* C7 as stated: a ray with no gate left yields a row of zeros and the rows
\* of the other rays are those of the call without that ray
C7_DegenerateRayAsIfAbsent ==
    g_pc = "done" =>
        \A r \in 0..(g_nrays - 1) :
            Degenerate(radar, g_args, r) => ZeroRow(r) /\ OthersAsIfAbsent(r)

\* C7, amended: a ray with no gate left yields a row of zeros, the call
\* goes on to the last ray, and the rows of the other rays are those of the
\* call without that ray when the system phase in use is the same without it
C7_DegenerateRayZeroRow ==
    g_pc = "done" =>
        /\ g_radial = g_nrays
        /\ \A r \in 0..(g_nrays - 1) :
              Degenerate(radar, g_args, r) =>
                  /\ ZeroRow(r)
                  /\ unf_system_zero(RemoveRay(radar, r), g_args) = g_system_zero
                        => OthersAsIfAbsent(r)

\* a call that has returned, on a volume with a ray that has no gate left,
\* before a ray whose row is not zero
C7_Witness ==
    /\ g_pc = "done"
    /\ \E r \in 0..(g_nrays - 1) :
          /\ Degenerate(radar, g_args, r)
          /\ \E q \in (r + 1)..(g_nrays - 1) :
                /\ ~Degenerate(radar, g_args, q)
                /\ ~ZeroRow(q)
                /\ unf_system_zero(RemoveRay(radar, r), g_args) = g_system_zero

\* the ray of the pass in hand has a gate left after the quality mask and
\* the run filter
RayHasGates == g_f.c # 1 /\ \E i \in 1..Len(g_f.x_ma.mask) : ~g_f.x_ma.mask[i]

\* system_max of the pass in hand (lines 392-393)
RaySystemMax ==
    unf_system_max(unf_unwrap(g_f.x_ma, g_args.nowrap), g_f.notmeteo, g_system_zero)

\* C11: for a ray with a gate left, after the anchors are set gate 0 and
\* the last gate of based are unmasked, gate 0 holds 0 and the last gate
\* holds system_max; the row of cordata holds 0 at gate 0
C11_AnchorsValid ==
    /\ g_pc = "fill" /\ RayHasGates =>
          LET n == Len(g_based.data)
          IN  /\ ~g_based.mask[1]
              /\ g_based.data[1] = 0
              /\ ~g_based.mask[n]
              /\ ~RaySystemMax.masked
              /\ g_based.data[n] = RaySystemMax.v
    /\ g_pc = "filter" /\ g_radial > 0 => g_cordata[g_radial][1] = 0

----------------------------------------------------------------------------
(* Properties of phase_proc *)

\* C6: every value of the KDP field that phase_proc returns lies in
\* [0, 20]
C6_KdpWithinValidRange ==
    p_pc = "done" =>
        \A r \in 1..Len(p_sob_kdp.data) :
            \A i \in 1..Len(p_sob_kdp.data[r]) :
                /\ p_sob_kdp.data[r][i] >= 0
                /\ p_sob_kdp.data[r][i] <= Deg(KdpValidMax)

\* C8: when phase_proc returns, the radar has the fields it had at the
\* call, and the data of its four input fields are what they were
C8_RadarUnchanged ==
    p_pc = "done" =>
        /\ DOMAIN radar.fields = DOMAIN p_radar0.fields
        /\ \A f \in {p_args.refl_field, p_args.ncp_field, p_args.rhv_field,
                     p_args.phidp_field} :
              radar.fields[f].data = p_radar0.fields[f].data

\* the range of gates and rays that the pass of sweep k (from 1) works on
SweepRange(k) == det_process_range(radar, k - 1, p_args.fzl, ProcDoc)

\* the last PadGates gates of the row (positions from 1)
LastGates(row) == (Len(row) - PadGates + 1)..Len(row)

\* C12: after the loop over the sweeps and the padding, for every ray of
\* every sweep each of the last 16 gates of the corrected phase holds the
\* ray's value at gate index gate_end - 16 (sweeps whose gate_end is below
\* 16 have no such gate and are left out)
C12_LastGatesPadded ==
    p_pc \in {"kdp", "done"} =>
        \A k \in 1..p_nsweeps :
            LET rng == SweepRange(k)
            IN  rng.gate_end >= PadGates =>
                    \A r \in rng.ray_start..rng.ray_end :
                        LET row == p_proc_ph.data[r + 1]
                        IN  \A i \in LastGates(row) :
                                row[i] = At(row, rng.gate_end - PadGates)

\* the calls of LP_solver whose block of rays holds ray r (a Python index)
LpCallsOn(r) ==
    {c \in 1..Len(p_lp_log) :
        p_lp_log[c].start_ray <= r /\ r < p_lp_log[c].end_ray}

\* gates [0, gate_end) of ray r before the loop over the sweeps: phidp_mod
PreLpRow(r, gate_end) ==
    PySlice(proc_phidp_mod(radar.fields[UnfField].data, p_args.min_phidp)[r + 1],
            0, gate_end)

\* gates [0, gate_end) of ray r of the corrected phase hold a solution that
\* LP_solver may return for the ray
HoldsLpSolution(r, gate_end) ==
    \E pick \in 1..2 :
        PySlice(p_proc_ph.data[r + 1], 0, gate_end) =
            lp_smooth(lp_primal(PreLpRow(r, gate_end))[pick])

\* C14: when the loop over the sweeps has ended, every ray of every sweep,
\* from its start index to its end index inclusive, was in the block of
\* exactly one call of LP_solver, and its gates [0, gate_end) hold the
\* solution of that call
C14_EveryRaySolvedOnce ==
    p_pc \in {"sweep", "kdp", "done"} /\ p_sweep = p_nsweeps =>
        \A k \in 1..p_nsweeps :
            LET rng == SweepRange(k)
            IN  \A r \in rng.ray_start..rng.ray_end :
                    /\ Cardinality(LpCallsOn(r)) = 1
                    /\ HoldsLpSolution(r, rng.gate_end)

----------------------------------------------------------------------------
(* Properties of construct_A_matrix *)

\* the entry of row i and column j of the matrix returned (from 0)
AEntry(i, j) == a_out.y[i + 1][j + 1]

\* the shape of the matrix returned and its rows 0..2n-1: rows 0..n-1 are
\* [I, -I] and rows n..2n-1 are [I, I]
AShapeAndIdentities ==
    LET n == a_n_gates
        k == Len(a_filt)
    IN  /\ Len(a_out.y) = 2 * n + (n - k + 1)
        /\ \A i \in 1..Len(a_out.y) : Len(a_out.y[i]) = 2 * n
        /\ \A i \in 0..(n - 1) : \A j \in 0..(n - 1) :
              /\ AEntry(i, j) = (IF i = j THEN Deg(1) ELSE 0)
              /\ AEntry(i, n + j) = (IF i = j THEN Deg(-1) ELSE 0)
              /\ AEntry(n + i, j) = (IF i = j THEN Deg(1) ELSE 0)
              /\ AEntry(n + i, n + j) = (IF i = j THEN Deg(1) ELSE 0)

\* part d (from 0) of the filter is within the middle block in row j
PartKept(j, d) ==
    LET side_pad == (Len(a_filt) - 1) \div 2
    IN  /\ j + d >= side_pad
        /\ j + d <= a_n_gates - Len(a_filt) + side_pad

=========================================================================
